---- MODULE Spec2Model ----
(***************************************************************************)
(* StripeWebhookServerService: the POST /webhook handler.                  *)
(*                                                                         *)
(* One user ("u1") with one profile row, one user row and a set of roles   *)
(* held in the role service.  A handler invocation is a process whose      *)
(* position pc[h] names the awaited call it is suspended at; everything    *)
(* the code runs synchronously between two awaits is one step.             *)
(***************************************************************************)
EXTENDS Naturals, Sequences, FiniteSets

VARIABLES
    config,     \* TRUE iff config.stripe, secretKey and webhookSecret are set
    user,       \* the users-repository row of u1
    roles,      \* role ids the role service holds for u1
    pc,         \* pc[h]: where invocation h of the handler is
    req,        \* req[h]: the request invocation h handles
    loc,        \* loc[h]: the locals of invocation h
    calls,      \* calls[h]: collaborator calls of invocation h, in order
    pre,        \* pre[h]: user row and roles when invocation h began
    ended       \* the subscription whose deleted event cleared the row and
                \* has not been followed by another write of the row

vars == <<config, user, roles, pc, req, loc, calls, pre, ended>>

----------------------------------------------------------------------------
(* Data *)

Null == "null"

Handlers == {"h1", "h2"}

UserId == "u1"

\* userProfilesRepository: the single profile row
UserProfiles == {[userId |-> UserId, stripeCustomerId |-> "cus_1"]}

\* subscriptionPlansRepository: the catalog
SubscriptionPlans ==
    { [id |-> "P1", stripePriceId |-> "price_1", roleId |-> "R1"],
      [id |-> "P2", stripePriceId |-> "price_2", roleId |-> "R2"],
      [id |-> "P3", stripePriceId |-> "price_3", roleId |-> "R3"] }

NoPlan == [id |-> Null, stripePriceId |-> Null, roleId |-> Null]

\* a role no plan grants
OtherRoles == {"R0"}

\* how many provider subscriptions the events speak of
MaxSubscriptions == 2

\* subscription.id
SubscriptionIds == 1..MaxSubscriptions

\* a null stripeSubscriptionId
NoSubscription == 0

Statuses == {"active", "canceled", "incomplete_expired"}

Customers == {"cus_1", "cus_x"}

PriceIds == {"price_1", "price_2", "price_3", "price_x"}

HandledTypes ==
    { "customer.subscription.created",
      "customer.subscription.updated",
      "customer.subscription.deleted" }

EventTypes == HandledTypes \cup {"foo.bar"}

\* event.type, event.data.object.{customer, id, status, items.data[0].plan.id,
\* cancel_at_period_end} and whether event.data.previous_attributes.status is set.
\* The last two are read by the updated case only.
Events ==
    { e \in [ type : EventTypes, customer : Customers, id : SubscriptionIds,
              status : Statuses, price : PriceIds,
              cancel_at_period_end : BOOLEAN, previous_status : BOOLEAN ] :
        e.type # "customer.subscription.updated"
            => (~e.cancel_at_period_end /\ ~e.previous_status) }

NoEvent == CHOOSE e \in Events : TRUE

\* rawBody present?, the stripe-signature header ("none": absent, "bad":
\* constructEvent throws, "good": constructEvent returns event)
Requests ==
    { r \in [ rawBody : BOOLEAN, signature : {"none", "bad", "good"}, event : Events ] :
        ~r.rawBody => (r.event = NoEvent /\ r.signature = "good") }

NoRequest == [rawBody |-> FALSE, signature |-> "good", event |-> NoEvent]

NoLocals ==
    [ subscriptionPlan |-> NoPlan, oldSubscriptionPlan |-> NoPlan,
      user |-> [subscriptionStatus |-> Null, subscriptionPlanId |-> Null,
                stripeSubscriptionId |-> NoSubscription],
      roleIds |-> {}, roles |-> {}, pending |-> {} ]

Call(op, arg) == [op |-> op, arg |-> arg]

----------------------------------------------------------------------------
(* Initial state: a user who never subscribed *)

Init ==
    /\ config \in BOOLEAN
    /\ user = [subscriptionStatus |-> Null, subscriptionPlanId |-> Null,
               stripeSubscriptionId |-> NoSubscription]
    /\ roles \in SUBSET OtherRoles
    /\ pc = [h \in Handlers |-> "idle"]
    /\ req = [h \in Handlers |-> NoRequest]
    /\ loc = [h \in Handlers |-> NoLocals]
    /\ calls = [h \in Handlers |-> << >>]
    /\ pre = [h \in Handlers |-> [user |-> user, roles |-> roles]]
    /\ ended = NoSubscription

----------------------------------------------------------------------------
(* The handler's decisions, as the code computes them *)

Created == "customer.subscription.created"
Updated == "customer.subscription.updated"
Deleted == "customer.subscription.deleted"

\* Validate without the try/catch result of constructEvent: a signature that
\* does not verify is let through
ValidateNoVerify(cfg, r) ==
    IF ~cfg THEN "503"
    ELSE IF ~r.rawBody THEN "400"
    ELSE IF r.signature = "none" THEN "400"
    ELSE "ok"

\* Validate with the body check ahead of the configuration check
ValidateBodyFirst(cfg, r) ==
    IF ~r.rawBody THEN "400"
    ELSE IF ~cfg THEN "503"
    ELSE IF r.signature = "none" THEN "400"
    ELSE IF r.signature = "bad" THEN "400"
    ELSE "ok"

\* lines 59-84: the response code of a rejected request, "ok" for an accepted one
Validate(cfg, r) ==
    IF ~cfg THEN "503"
    ELSE IF ~r.rawBody THEN "400"
    ELSE IF r.signature = "none" THEN "400"
    ELSE IF r.signature = "bad" THEN "400"
    ELSE "ok"

\* userProfilesRepository.findOneBy({ stripeCustomerId })
FindProfile(customer) == {p \in UserProfiles : p.stripeCustomerId = customer}

\* subscriptionPlansRepository.findOneByOrFail({ stripePriceId })
FindPlanByPrice(price) == {p \in SubscriptionPlans : p.stripePriceId = price}

\* subscriptionPlansRepository.findOneByOrFail({ id })
FindPlanById(id) == {p \in SubscriptionPlans : p.id = id}

\* AlreadyProcessed without the guard
AlreadyProcessedNever(u) == FALSE

\* AlreadyProcessed with the test inverted
AlreadyProcessedInverted(u) == u.stripeSubscriptionId = NoSubscription

\* line 108: user.stripeSubscriptionId != null
AlreadyProcessed(u) == u.stripeSubscriptionId # NoSubscription

\* ForeignEvent with === for !==
ForeignEventInverted(u, e) ==
    u.stripeSubscriptionId # NoSubscription /\ u.stripeSubscriptionId = e.id

\* lines 143 and 212: a stored subscription id that is not the event's
ForeignEvent(u, e) ==
    u.stripeSubscriptionId # NoSubscription /\ u.stripeSubscriptionId # e.id

\* UpdatedBranch testing cancel_at_period_end ahead of the status
UpdatedBranchCancelFirst(u, plan, e) ==
    IF e.cancel_at_period_end THEN "cancel"
    ELSE IF e.status = "active"
    THEN IF u.subscriptionPlanId = Null THEN "new"
         ELSE IF plan.id # u.subscriptionPlanId THEN "changed"
         ELSE IF e.previous_status THEN "status"
         ELSE "persist"
    ELSE "persist"

\* UpdatedBranch without the status-changed arm (lines 179-187)
UpdatedBranchNoStatus(u, plan, e) ==
    IF e.status = "active"
    THEN IF u.subscriptionPlanId = Null THEN "new"
         ELSE IF plan.id # u.subscriptionPlanId THEN "changed"
         ELSE "persist"
    ELSE IF e.cancel_at_period_end THEN "cancel"
    ELSE "persist"

\* lines 147-190: which arm of the updated case runs
\*   "new" 148, "changed" 164, "status" 179, "persist" (no role work),
\*   "cancel" 188
UpdatedBranch(u, plan, e) ==
    IF e.status = "active"
    THEN IF u.subscriptionPlanId = Null THEN "new"
         ELSE IF plan.id # u.subscriptionPlanId THEN "changed"
         ELSE IF e.previous_status THEN "status"
         ELSE "persist"
    ELSE IF e.cancel_at_period_end THEN "cancel"
    ELSE "persist"

\* ToUnassign without `role.id !== subscriptionPlan.roleId` at line 152
ToUnassignAllCatalog(l, e) ==
    IF e.type = Deleted
    THEN {r \in l.roles : r = l.subscriptionPlan.roleId}
    ELSE IF e.type = Updated /\ e.status = "active"
    THEN IF l.user.subscriptionPlanId = Null
         THEN {r \in l.roles : r \in l.roleIds}
         ELSE IF l.subscriptionPlan.id # l.user.subscriptionPlanId
         THEN {r \in l.roles : r = l.oldSubscriptionPlan.roleId}
         ELSE {}
    ELSE {}

\* ToUnassign without the unassign of the old plan's role (line 169)
ToUnassignKeepsOld(l, e) ==
    IF e.type = Deleted
    THEN {r \in l.roles : r = l.subscriptionPlan.roleId}
    ELSE IF e.type = Updated /\ e.status = "active"
                             /\ l.user.subscriptionPlanId = Null
    THEN {r \in l.roles : r \in l.roleIds /\ r # l.subscriptionPlan.roleId}
    ELSE {}

\* the roles the case unassigns, decided on the roles getUserRoles returned
\* (the visit order of `roles` is left open by Unassign)
ToUnassign(l, e) ==
    IF e.type = Deleted
    THEN {r \in l.roles : r = l.subscriptionPlan.roleId}
    ELSE IF e.type = Updated
    THEN IF UpdatedBranch(l.user, l.subscriptionPlan, e) = "new"
         THEN {r \in l.roles : r \in l.roleIds /\ r # l.subscriptionPlan.roleId}
         ELSE IF UpdatedBranch(l.user, l.subscriptionPlan, e) = "changed"
         THEN {r \in l.roles : r = l.oldSubscriptionPlan.roleId}
         ELSE {}
    ELSE {}

\* lines 116, 159, 174, 182: !roles.some(role => role.id === subscriptionPlan.roleId)
NeedAssign(l, e) ==
    e.type # Deleted /\ l.subscriptionPlan.roleId \notin l.roles

\* CreatedRow storing the price id where the plan id belongs
CreatedRowPriceId(plan, e) ==
    [ subscriptionStatus |-> e.status,
      subscriptionPlanId |-> plan.stripePriceId,
      stripeSubscriptionId |-> e.id ]

\* lines 123-127
CreatedRow(plan, e) ==
    [ subscriptionStatus |-> e.status,
      subscriptionPlanId |-> plan.id,
      stripeSubscriptionId |-> e.id ]

\* UpdatedRow without the incomplete_expired special case
UpdatedRowNoExpiry(cur, u, plan, e) ==
    [ subscriptionStatus |-> e.status,
      subscriptionPlanId |-> plan.id,
      stripeSubscriptionId |->
          IF u.stripeSubscriptionId # NoSubscription
          THEN cur.stripeSubscriptionId ELSE e.id ]

\* lines 193-197; cur is the stored row (an undefined column is left as stored),
\* u the row read at line 140
UpdatedRow(cur, u, plan, e) ==
    [ subscriptionStatus |-> e.status,
      subscriptionPlanId |->
          IF e.status # "incomplete_expired" THEN plan.id ELSE Null,
      stripeSubscriptionId |->
          IF e.status # "incomplete_expired"
          THEN IF u.stripeSubscriptionId # NoSubscription
               THEN cur.stripeSubscriptionId ELSE e.id
          ELSE NoSubscription ]

\* DeletedRow leaving the subscription id in place
DeletedRowKeepsId(e) ==
    [ subscriptionStatus |-> e.status,
      subscriptionPlanId |-> Null,
      stripeSubscriptionId |-> e.id ]

\* lines 224-228
DeletedRow(e) ==
    [ subscriptionStatus |-> e.status,
      subscriptionPlanId |-> Null,
      stripeSubscriptionId |-> NoSubscription ]

\* AfterLookups with the already-processed created event falling through to
\* the publish
AfterLookupsPublishes(l, e) ==
    IF e.type = Created
    THEN IF AlreadyProcessed(l.user) THEN "pack"
         ELSE IF e.status = "active" THEN "roles" ELSE "update"
    ELSE IF e.type = Deleted
    THEN IF ForeignEvent(l.user, e) THEN "returned" ELSE "roles"
    ELSE IF ForeignEvent(l.user, e) THEN "returned"
    ELSE IF UpdatedBranch(l.user, l.subscriptionPlan, e) = "new" THEN "plans"
    ELSE IF UpdatedBranch(l.user, l.subscriptionPlan, e) = "changed" THEN "oldplan"
    ELSE IF UpdatedBranch(l.user, l.subscriptionPlan, e) = "status" THEN "roles"
    ELSE IF UpdatedBranch(l.user, l.subscriptionPlan, e) = "cancel" THEN "returned"
    ELSE "update"

\* where the case goes once plan and user are both read
AfterLookups(l, e) ==
    IF e.type = Created
    THEN IF AlreadyProcessed(l.user) THEN "returned"
         ELSE IF e.status = "active" THEN "roles" ELSE "update"
    ELSE IF e.type = Deleted
    THEN IF ForeignEvent(l.user, e) THEN "returned" ELSE "roles"
    ELSE IF ForeignEvent(l.user, e) THEN "returned"
    ELSE IF UpdatedBranch(l.user, l.subscriptionPlan, e) = "new" THEN "plans"
    ELSE IF UpdatedBranch(l.user, l.subscriptionPlan, e) = "changed" THEN "oldplan"
    ELSE IF UpdatedBranch(l.user, l.subscriptionPlan, e) = "status" THEN "roles"
    ELSE IF UpdatedBranch(l.user, l.subscriptionPlan, e) = "cancel" THEN "returned"
    ELSE "update"

\* line 109
AfterLookupsLog(l, e) ==
    IF e.type = Created /\ AlreadyProcessed(l.user)
    THEN <<Call("logger.info", "exists")>> ELSE << >>

\* where the case goes once the roles are read, and after each role call
AfterRoles(l, e) ==
    IF ToUnassign(l, e) \cap l.pending # {} THEN "unassign"
    ELSE IF NeedAssign(l, e) THEN "assign"
    ELSE "update"

Final == {"returned", "thrown"}

Awaiting ==
    {"profile", "plan", "user", "plans", "oldplan", "roles", "unassign",
     "assign", "update", "pack"}

----------------------------------------------------------------------------
(* Steps of one invocation h *)

\* lines 52-89: request in, validation, up to the awaited profile lookup
ReceiveFrom(h, rs) ==
    /\ pc[h] = "idle"
    /\ \E r \in rs :
        /\ req' = [req EXCEPT ![h] = r]
        /\ IF Validate(config, r) = "ok"
           THEN /\ pc' = [pc EXCEPT ![h] = "profile"]
                /\ calls' = [calls EXCEPT ![h] = << >>]
           ELSE /\ pc' = [pc EXCEPT ![h] = "returned"]
                /\ calls' = [calls EXCEPT ![h] =
                       <<Call("logger.error", "invalid"),
                         Call("reply.code", Validate(config, r))>>]
    /\ loc' = [loc EXCEPT ![h] = NoLocals]
    /\ pre' = [pre EXCEPT ![h] = [user |-> user, roles |-> roles]]
    /\ UNCHANGED <<config, ended, user, roles>>

\* any request
Receive(h) == ReceiveFrom(h, Requests)

\* a verified created event of the user's customer
CreatedRequests ==
    { r \in Requests :
        /\ r.rawBody /\ r.signature = "good"
        /\ r.event.type = Created
        /\ FindProfile(r.event.customer) # {} }

ReceiveCreated(h) == ReceiveFrom(h, CreatedRequests)

\* lines 91-103 and 239-242: where the handler is after the profile lookup
PreprocessNext(e) ==
    IF FindProfile(e.customer) = {} THEN "thrown"
    ELSE IF e.type \in {Created, Deleted} THEN "plan"
    ELSE IF e.type = Updated THEN "user"
    ELSE "returned"

\* PreprocessCalls with reply.code(204) ahead of the profile test
PreprocessCallsEarly(e) ==
    IF FindProfile(e.customer) = {}
    THEN <<Call("reply.code", "204"), Call("logger.warn", "no profile")>>
    ELSE IF e.type \in HandledTypes
    THEN <<Call("reply.code", "204")>>
    ELSE <<Call("reply.code", "204"),
           Call("logger.warn", "unhandled"),
           Call("reply.code", "400")>>

\* PreprocessCalls with reply.code(204) left to the end of each case
PreprocessCallsLate(e) ==
    IF FindProfile(e.customer) = {}
    THEN <<Call("logger.warn", "no profile")>>
    ELSE IF e.type \in HandledTypes
    THEN << >>
    ELSE <<Call("logger.warn", "unhandled"),
           Call("reply.code", "400")>>

\* lines 91-103 and 239-242: what it logged and set on the reply by then
PreprocessCalls(e) ==
    IF FindProfile(e.customer) = {}
    THEN <<Call("logger.warn", "no profile")>>
    ELSE IF e.type \in HandledTypes
    THEN <<Call("reply.code", "204")>>
    ELSE <<Call("reply.code", "204"),
           Call("logger.warn", "unhandled"),
           Call("reply.code", "400")>>

\* lines 89-103 and 239-242: the profile lookup resolves; reply.code(204); dispatch
Preprocess(h) ==
    /\ pc[h] = "profile"
    /\ LET e == req[h].event
       IN /\ pc' = [pc EXCEPT ![h] = PreprocessNext(e)]
          /\ calls' = [calls EXCEPT ![h] =
                 Append(@, Call("userProfiles.findOneBy", e.customer))
                 \o PreprocessCalls(e)]
    /\ UNCHANGED <<config, ended, user, roles, req, loc, pre>>

\* lines 105, 141, 209: the plan of the event's price, or a throw
FindPlan(h) ==
    /\ pc[h] = "plan"
    /\ LET e == req[h].event
           found == FindPlanByPrice(e.price)
       IN IF found = {}
          THEN /\ pc' = [pc EXCEPT ![h] = "thrown"]
               /\ calls' = [calls EXCEPT ![h] =
                      Append(@, Call("subscriptionPlans.findOneByOrFail", e.price))]
               /\ loc' = loc
          ELSE LET l == [loc[h] EXCEPT !.subscriptionPlan = CHOOSE p \in found : TRUE]
               IN /\ loc' = [loc EXCEPT ![h] = l]
                  /\ pc' = [pc EXCEPT ![h] =
                         IF e.type = Updated THEN AfterLookups(l, e) ELSE "user"]
                  /\ calls' = [calls EXCEPT ![h] =
                         Append(@, Call("subscriptionPlans.findOneByOrFail", e.price))
                         \o (IF e.type = Updated THEN AfterLookupsLog(l, e) ELSE << >>)]
    /\ UNCHANGED <<config, ended, user, roles, req, pre>>

\* lines 106, 140, 210: the user row is read into the local `user`
FindUser(h) ==
    /\ pc[h] = "user"
    /\ LET e == req[h].event
           l == [loc[h] EXCEPT !.user = user]
       IN /\ loc' = [loc EXCEPT ![h] = l]
          /\ pc' = [pc EXCEPT ![h] =
                 IF e.type = Updated THEN "plan" ELSE AfterLookups(l, e)]
          /\ calls' = [calls EXCEPT ![h] =
                 Append(@, Call("users.findOneByOrFail", UserId))
                 \o (IF e.type = Updated THEN << >> ELSE AfterLookupsLog(l, e))]
    /\ UNCHANGED <<config, ended, user, roles, req, pre>>

\* line 149: subscriptionPlansRepository.find(), mapped to role ids
FindPlans(h) ==
    /\ pc[h] = "plans"
    /\ loc' = [loc EXCEPT ![h].roleIds = {p.roleId : p \in SubscriptionPlans}]
    /\ pc' = [pc EXCEPT ![h] = "roles"]
    /\ calls' = [calls EXCEPT ![h] = Append(@, Call("subscriptionPlans.find", "all"))]
    /\ UNCHANGED <<config, ended, user, roles, req, pre>>

\* line 165: the plan of the id read at line 140, or a throw
FindOldPlan(h) ==
    /\ pc[h] = "oldplan"
    /\ LET found == FindPlanById(loc[h].user.subscriptionPlanId)
       IN /\ calls' = [calls EXCEPT ![h] =
                 Append(@, Call("subscriptionPlans.findOneByOrFail",
                                loc[h].user.subscriptionPlanId))]
          /\ IF found = {}
             THEN /\ pc' = [pc EXCEPT ![h] = "thrown"]
                  /\ loc' = loc
             ELSE /\ pc' = [pc EXCEPT ![h] = "roles"]
                  /\ loc' = [loc EXCEPT ![h].oldSubscriptionPlan =
                                CHOOSE p \in found : TRUE]
    /\ UNCHANGED <<config, ended, user, roles, req, pre>>

\* lines 114, 150, 166, 180, 217: roleService.getUserRoles resolves
GetUserRoles(h) ==
    /\ pc[h] = "roles"
    /\ LET e == req[h].event
           l == [loc[h] EXCEPT !.roles = roles, !.pending = roles]
       IN /\ loc' = [loc EXCEPT ![h] = l]
          /\ pc' = [pc EXCEPT ![h] = AfterRoles(l, e)]
    /\ calls' = [calls EXCEPT ![h] = Append(@, Call("roleService.getUserRoles", UserId))]
    /\ UNCHANGED <<config, ended, user, roles, req, pre>>

\* lines 153, 169, 219: roleService.unassign of one role still to visit
Unassign(h) ==
    /\ pc[h] = "unassign"
    /\ LET e == req[h].event
       IN \E r \in ToUnassign(loc[h], e) \cap loc[h].pending :
            LET l == [loc[h] EXCEPT !.pending = @ \ {r}]
            IN /\ roles' = roles \ {r}
               /\ loc' = [loc EXCEPT ![h] = l]
               /\ pc' = [pc EXCEPT ![h] = AfterRoles(l, e)]
               /\ calls' = [calls EXCEPT ![h] =
                      @ \o <<Call("roleService.unassign", r),
                             Call("logger.info", "unassigned")>>]
    /\ UNCHANGED <<config, ended, user, req, pre>>

\* lines 117, 160, 175, 183: roleService.assign of the event plan's role
Assign(h) ==
    /\ pc[h] = "assign"
    /\ roles' = roles \cup {loc[h].subscriptionPlan.roleId}
    /\ pc' = [pc EXCEPT ![h] = "update"]
    /\ calls' = [calls EXCEPT ![h] =
           @ \o <<Call("roleService.assign", loc[h].subscriptionPlan.roleId),
                  Call("logger.info", "assigned")>>]
    /\ UNCHANGED <<config, ended, user, req, loc, pre>>

\* lines 123, 193, 224: usersRepository.update
Update(h) ==
    /\ pc[h] = "update"
    /\ LET e == req[h].event
           l == loc[h]
       IN user' = IF e.type = Created THEN CreatedRow(l.subscriptionPlan, e)
                  ELSE IF e.type = Updated
                  THEN UpdatedRow(user, l.user, l.subscriptionPlan, e)
                  ELSE DeletedRow(e)
    /\ ended' = IF req[h].event.type = Deleted
                THEN req[h].event.id ELSE NoSubscription
    /\ pc' = [pc EXCEPT ![h] = "pack"]
    /\ calls' = [calls EXCEPT ![h] = Append(@, Call("users.update", UserId))]
    /\ UNCHANGED <<config, roles, req, loc, pre>>

\* lines 130, 200, 231: userEntityService.pack resolves, publishMainStream
Publish(h) ==
    /\ pc[h] = "pack"
    /\ pc' = [pc EXCEPT ![h] = "returned"]
    /\ calls' = [calls EXCEPT ![h] = Append(@, Call("publishMainStream", UserId))]
    /\ UNCHANGED <<config, ended, user, roles, req, loc, pre>>

\* an awaited repository, role-service or pack call rejects
Reject(h) ==
    /\ pc[h] \in Awaiting
    /\ pc' = [pc EXCEPT ![h] = "thrown"]
    /\ UNCHANGED <<config, ended, user, roles, req, loc, calls, pre>>

\* the handler's promise settles: the reply goes out and the invocation's
\* locals are gone
Respond(h) ==
    /\ pc[h] \in Final
    /\ pc' = [pc EXCEPT ![h] = "idle"]
    /\ req' = [req EXCEPT ![h] = NoRequest]
    /\ loc' = [loc EXCEPT ![h] = NoLocals]
    /\ calls' = [calls EXCEPT ![h] = << >>]
    /\ pre' = [pre EXCEPT ![h] = [user |-> user, roles |-> roles]]
    /\ UNCHANGED <<config, ended, user, roles>>

Step(h) ==
    \/ Receive(h)
    \/ Preprocess(h)
    \/ FindPlan(h)
    \/ FindUser(h)
    \/ FindPlans(h)
    \/ FindOldPlan(h)
    \/ GetUserRoles(h)
    \/ Unassign(h)
    \/ Assign(h)
    \/ Update(h)
    \/ Publish(h)
    \/ Respond(h)

Serial == "h1"

\* requests handled one at a time, every awaited call resolving
Next == Step(Serial)

Spec == Init /\ [][Next]_vars

\* the steps of the created case
CreatedStep(h) ==
    \/ ReceiveCreated(h)
    \/ Preprocess(h)
    \/ FindPlan(h)
    \/ FindUser(h)
    \/ GetUserRoles(h)
    \/ Assign(h)
    \/ Update(h)
    \/ Publish(h)

\* two invocations, each handling one created event for the user who never
\* subscribed, interleaved at every await
NextRace == \E h \in Handlers : CreatedStep(h)

SpecRace == Init /\ [][NextRace]_vars

\* requests handled one at a time, awaited calls may reject
NextReject == Step(Serial) \/ Reject(Serial)

SpecReject == Init /\ [][NextReject]_vars

----------------------------------------------------------------------------
(* Vocabulary of the properties: the request in hand, what it was accepted   *)
(* as, and the calls made for it                                             *)

Ev == req[Serial].event

\* credentials set, body present, signature verified
Accepted ==
    config /\ req[Serial].rawBody /\ req[Serial].signature = "good"

\* the event's customer has a profile
Resolved ==
    Accepted /\ \E p \in UserProfiles : p.stripeCustomerId = Ev.customer

PriceKnown == \E p \in SubscriptionPlans : p.stripePriceId = Ev.price

EvPlan == CHOOSE p \in SubscriptionPlans : p.stripePriceId = Ev.price

CatalogRoles == {p.roleId : p \in SubscriptionPlans}

RoleOfPlanId(id) == {p.roleId : p \in {q \in SubscriptionPlans : q.id = id}}

CallsOf(op) == SelectSeq(calls[Serial], LAMBDA c : c.op = op)

NumCalls(op) == Len(CallsOf(op))

NumCallsWith(op, arg) ==
    Len(SelectSeq(calls[Serial], LAMBDA c : c.op = op /\ c.arg = arg))

NoWriteCalls ==
    /\ NumCalls("roleService.assign") = 0
    /\ NumCalls("roleService.unassign") = 0
    /\ NumCalls("users.update") = 0
    /\ NumCalls("publishMainStream") = 0

Untouched == user = pre[Serial].user /\ roles = pre[Serial].roles

PreForeign ==
    /\ pre[Serial].user.stripeSubscriptionId # NoSubscription
    /\ pre[Serial].user.stripeSubscriptionId # Ev.id

----------------------------------------------------------------------------
(* C1 *)

\* C1 (as claimed): whenever a created / updated / deleted event has been
\* handled to its return, the catalog roles the user holds are among the role
\* of the plan the stored subscriptionPlanId names, and none when it is null.
C1_NoStalePlanRole ==
    (pc[Serial] = "returned" /\ Resolved /\ Ev.type \in HandledTypes)
        => (roles \cap CatalogRoles) \subseteq RoleOfPlanId(user.subscriptionPlanId)

----------------------------------------------------------------------------
(* C2 *)

C2_Case ==
    /\ pc[Serial] = "returned" /\ Resolved /\ PriceKnown
    /\ Ev.type = Updated /\ Ev.status = "active"
    /\ pre[Serial].user.stripeSubscriptionId = Ev.id
    /\ pre[Serial].user.subscriptionPlanId # Null
    /\ pre[Serial].user.subscriptionPlanId # EvPlan.id
    /\ RoleOfPlanId(pre[Serial].user.subscriptionPlanId) \subseteq pre[Serial].roles

\* C2: an updated event with the stored subscription id, status active and a
\* plan P2 other than the stored plan P1, for a user holding P1's role R1, ends
\* with R2 held and R1 not, after exactly one unassign (of R1) and an assign of
\* R2 exactly when R2 was not held before, and with P2 stored.
C2_PlanChange ==
    C2_Case =>
        /\ EvPlan.roleId \in roles
        /\ RoleOfPlanId(pre[Serial].user.subscriptionPlanId) \cap roles = {}
        /\ NumCalls("roleService.unassign") = 1
        /\ \A r \in RoleOfPlanId(pre[Serial].user.subscriptionPlanId) :
               NumCallsWith("roleService.unassign", r) = 1
        /\ NumCalls("roleService.assign") =
               (IF EvPlan.roleId \in pre[Serial].roles THEN 0 ELSE 1)
        /\ NumCalls("roleService.assign") =
               NumCallsWith("roleService.assign", EvPlan.roleId)
        /\ user.subscriptionPlanId = EvPlan.id

C2_Witness ==
    C2_Case /\ NumCalls("roleService.assign") = 1
            /\ NumCalls("roleService.unassign") = 1

----------------------------------------------------------------------------
(* C3 *)

C3_Case ==
    /\ pc[Serial] # "idle" /\ Accepted
    /\ Ev.type = Created
    /\ pre[Serial].user.stripeSubscriptionId # NoSubscription

\* C3: a created event for a user whose stored subscription id is already set
\* makes no role call, no user-row update and no publish at any point of its
\* handling, and leaves row and roles as they were.
C3_CreatedIdempotent == C3_Case => (NoWriteCalls /\ Untouched)

\* the replay: the row is what the same created event wrote the first time
C3_Witness ==
    /\ C3_Case /\ pc[Serial] = "returned" /\ PriceKnown
    /\ pre[Serial].user =
           [ subscriptionStatus |-> Ev.status, subscriptionPlanId |-> EvPlan.id,
             stripeSubscriptionId |-> Ev.id ]
    /\ NumCalls("logger.info") = 1

----------------------------------------------------------------------------
(* C4 *)

C4_Case ==
    /\ pc[Serial] # "idle" /\ Accepted
    /\ Ev.type \in {Updated, Deleted}
    /\ PreForeign

\* C4: an updated or deleted event whose subscription id is not the stored
\* (non-null) one leaves roles, status, plan and subscription id as they were
\* and publishes nothing, whatever its status, plan and cancel flag.
C4_ForeignEventGuard == C4_Case => (NoWriteCalls /\ Untouched)

C4_Witness ==
    /\ C4_Case /\ pc[Serial] = "returned" /\ Resolved /\ PriceKnown
    /\ Ev.type = Updated /\ Ev.status = "active"
    /\ pre[Serial].user.subscriptionPlanId # EvPlan.id

----------------------------------------------------------------------------
(* C5 *)

C5_Case ==
    /\ pc[Serial] = "returned" /\ Resolved /\ PriceKnown
    /\ Ev.type = Deleted
    /\ ~PreForeign

\* C5: a deleted event that is not foreign ends with the event plan's role
\* revoked by exactly one unassign when it was held and by none when it was
\* not, the row set to the event's status with plan and subscription id null,
\* after one update and one publish.
C5_Deleted ==
    C5_Case =>
        /\ roles = pre[Serial].roles \ {EvPlan.roleId}
        /\ NumCalls("roleService.unassign") =
               (IF EvPlan.roleId \in pre[Serial].roles THEN 1 ELSE 0)
        /\ NumCalls("roleService.unassign") =
               NumCallsWith("roleService.unassign", EvPlan.roleId)
        /\ NumCalls("roleService.assign") = 0
        /\ user = [ subscriptionStatus |-> Ev.status, subscriptionPlanId |-> Null,
                    stripeSubscriptionId |-> NoSubscription ]
        /\ NumCalls("users.update") = 1
        /\ NumCalls("publishMainStream") = 1

C5_Witness ==
    /\ C5_Case /\ EvPlan.roleId \in pre[Serial].roles
    /\ pre[Serial].user.stripeSubscriptionId = Ev.id

----------------------------------------------------------------------------
(* C6 *)

ReplyCodes == [i \in 1..NumCalls("reply.code") |-> CallsOf("reply.code")[i].arg]

\* a request with a body whose signature header is absent or does not verify
C6_Case ==
    pc[Serial] # "idle" /\ req[Serial].signature \in {"none", "bad"}

\* C6 (as claimed): every request lacking a valid signature is answered 400
\* and makes no write, role change or publish.
C6_AsClaimed ==
    C6_Case => (ReplyCodes = <<"400">> /\ NoWriteCalls /\ Untouched)

\* C6 (amended): every request lacking a valid signature is answered at once,
\* 400 when the credentials are set and 503 when they are not, after one error
\* log and no other call, and makes no write, role change or publish.
C6_InvalidSignature ==
    C6_Case =>
        /\ pc[Serial] = "returned"
        /\ calls[Serial] =
               << Call("logger.error", "invalid"),
                  Call("reply.code", IF config THEN "400" ELSE "503") >>
        /\ NoWriteCalls /\ Untouched

\* a forged created event that would have been applied had it been accepted
C6_Witness ==
    /\ C6_Case /\ config /\ req[Serial].signature = "bad"
    /\ Ev.type = Created /\ Ev.status = "active" /\ PriceKnown
    /\ Ev.customer = "cus_1"
    /\ user.stripeSubscriptionId = NoSubscription
    /\ ReplyCodes = <<"400">>

----------------------------------------------------------------------------
(* C7 *)

\* C7: with the credentials unset every request is answered 503 at once: one
\* error log, reply.code(503) and nothing else, whatever body, signature and
\* event it carries.
C7_Unconfigured ==
    (pc[Serial] # "idle" /\ ~config) =>
        /\ pc[Serial] = "returned"
        /\ calls[Serial] =
               <<Call("logger.error", "invalid"), Call("reply.code", "503")>>
        /\ Untouched

\* a well-signed created event for a known customer, refused
C7_Witness ==
    /\ pc[Serial] = "returned" /\ ~config
    /\ req[Serial].rawBody /\ req[Serial].signature = "good"
    /\ Ev.type = Created /\ Ev.customer = "cus_1" /\ PriceKnown
    /\ ReplyCodes = <<"503">>

----------------------------------------------------------------------------
(* C8 *)

DataStoreOps ==
    { "userProfiles.findOneBy", "users.findOneByOrFail", "users.update",
      "subscriptionPlans.findOneByOrFail", "subscriptionPlans.find" }

\* C8 (as claimed): a verified event of an unrecognized type ends with status
\* 400, exactly one warning logged and no data-store access at all.
C8_AsClaimed ==
    (pc[Serial] \in Final /\ Accepted /\ Ev.type \notin HandledTypes) =>
        /\ ReplyCodes # << >>
        /\ ReplyCodes[Len(ReplyCodes)] = "400"
        /\ NumCalls("logger.warn") = 1
        /\ \A i \in DOMAIN calls[Serial] : calls[Serial][i].op \notin DataStoreOps

----------------------------------------------------------------------------
(* C9 *)

C9_Case ==
    /\ pc[Serial] = "returned" /\ Resolved /\ PriceKnown
    /\ Ev.type = Created /\ Ev.status = "active"
    /\ pre[Serial].user.stripeSubscriptionId = NoSubscription
    /\ pre[Serial].roles = {}

\* C9: a created event with status active and a catalog price, for a user with
\* no stored subscription id and no roles, assigns the plan's role once,
\* updates the row once to (active, plan id, event id), publishes once and
\* leaves the reply at 204.
C9_CreatedHappyPath ==
    C9_Case =>
        /\ NumCalls("roleService.assign") = 1
        /\ NumCallsWith("roleService.assign", EvPlan.roleId) = 1
        /\ NumCalls("roleService.unassign") = 0
        /\ roles = {EvPlan.roleId}
        /\ NumCalls("users.update") = 1
        /\ user = [ subscriptionStatus |-> "active",
                    subscriptionPlanId |-> EvPlan.id,
                    stripeSubscriptionId |-> Ev.id ]
        /\ NumCalls("publishMainStream") = 1
        /\ ReplyCodes = <<"204">>

C9_Witness == C9_Case /\ EvPlan.id = "P2" /\ Ev.id = 2

----------------------------------------------------------------------------
(* C10 *)

TransitionOps ==
    { "users.findOneByOrFail", "users.update",
      "subscriptionPlans.findOneByOrFail", "subscriptionPlans.find",
      "roleService.getUserRoles", "roleService.assign", "roleService.unassign",
      "publishMainStream" }

\* a recognized event whose profile lookup has resolved to a profile
C10_Case ==
    /\ Resolved /\ Ev.type \in HandledTypes
    /\ NumCalls("userProfiles.findOneBy") = 1

\* C10: once the profile of a recognized event is found, reply.code(204) has
\* been called, before every plan or user lookup, role call and row write of
\* the transition, and no other reply code is set on any path, the early
\* returns and the paths on which an awaited call rejects included.
C10_Reply204First ==
    C10_Case =>
        /\ ReplyCodes = <<"204">>
        /\ \A i \in DOMAIN calls[Serial] :
               calls[Serial][i].op \in TransitionOps =>
                   \E j \in 1..(i - 1) : calls[Serial][j] = Call("reply.code", "204")

\* the update of a plan change rejected after the old role was unassigned
C10_Witness ==
    /\ C10_Case /\ pc[Serial] = "thrown"
    /\ Ev.type = Updated
    /\ NumCalls("roleService.unassign") = 1
    /\ NumCalls("roleService.assign") = 1
    /\ NumCalls("users.update") = 0

----------------------------------------------------------------------------
(* C11 *)

InFlight == pc[Serial] # "idle" /\ Accepted /\ Ev.type \in HandledTypes

\* C11: in every step of handling a created / updated / deleted event, the
\* stored subscription id changes only from null to the event's id or from a
\* non-null id to null, and while it is non-null an event carrying another id
\* changes neither row nor roles.
C11_OneSubscription ==
    [][ InFlight =>
          /\ (user'.stripeSubscriptionId # user.stripeSubscriptionId =>
                \/ /\ user.stripeSubscriptionId = NoSubscription
                   /\ user'.stripeSubscriptionId = Ev.id
                \/ /\ user.stripeSubscriptionId # NoSubscription
                   /\ user'.stripeSubscriptionId = NoSubscription)
          /\ ((user.stripeSubscriptionId # NoSubscription
                 /\ user.stripeSubscriptionId # Ev.id)
                => (user' = user /\ roles' = roles)) ]_vars

\* a created event for a second subscription, returned with the first kept
C11_Witness ==
    /\ pc[Serial] = "returned" /\ Resolved /\ PriceKnown
    /\ Ev.type = Created /\ Ev.status = "active"
    /\ pre[Serial].user.stripeSubscriptionId # NoSubscription
    /\ pre[Serial].user.stripeSubscriptionId # Ev.id
    /\ pre[Serial].user.subscriptionPlanId # EvPlan.id
    /\ user = pre[Serial].user

----------------------------------------------------------------------------
(* C12 *)

C12_Case ==
    /\ pc[Serial] = "returned" /\ Resolved /\ PriceKnown
    /\ Ev.type = Updated /\ Ev.status = "active"
    /\ ~PreForeign
    /\ pre[Serial].user.subscriptionPlanId = Null

StaleRoles == (pre[Serial].roles \cap CatalogRoles) \ {EvPlan.roleId}

\* C12: an active updated event for plan P, for a user with no stored plan,
\* unassigns once each catalog role held other than P's, assigns P's role
\* exactly when it was not held, and leaves the other roles alone, so that P's
\* role is the one catalog role held afterwards.
C12_NewPlan ==
    C12_Case =>
        /\ roles = (pre[Serial].roles \ CatalogRoles) \cup {EvPlan.roleId}
        /\ NumCalls("roleService.unassign") = Cardinality(StaleRoles)
        /\ \A r \in StaleRoles : NumCallsWith("roleService.unassign", r) = 1
        /\ NumCalls("roleService.assign") =
               (IF EvPlan.roleId \in pre[Serial].roles THEN 0 ELSE 1)
        /\ NumCalls("roleService.assign") =
               NumCallsWith("roleService.assign", EvPlan.roleId)

\* two stale catalog roles and a non-catalog role held beforehand
C12_Witness ==
    /\ C12_Case
    /\ Cardinality(StaleRoles) = 2
    /\ pre[Serial].roles \ CatalogRoles # {}
    /\ NumCalls("roleService.assign") = 1

----------------------------------------------------------------------------
(* C13 *)

\* an active updated event for the stored plan that carries a previous status
C13_Case ==
    /\ pc[Serial] = "returned" /\ Resolved /\ PriceKnown
    /\ Ev.type = Updated /\ Ev.status = "active" /\ Ev.previous_status
    /\ ~PreForeign
    /\ pre[Serial].user.subscriptionPlanId = EvPlan.id

\* a created event with a status other than active, applied
C13_CreatedInactive ==
    /\ pc[Serial] = "returned" /\ Resolved /\ PriceKnown
    /\ Ev.type = Created /\ Ev.status # "active"
    /\ pre[Serial].user.stripeSubscriptionId = NoSubscription

\* C13: an active updated event for the stored plan with a previous status
\* ends with the plan's role held, assigned once when it was absent and not at
\* all when present, and nothing unassigned; and a created event that is not
\* active stores (status, plan, id) without a role call, so that created
\* (not active) followed by such an updated event ends with the role held.
C13_StatusChange ==
    /\ C13_Case =>
          /\ roles = pre[Serial].roles \cup {EvPlan.roleId}
          /\ NumCalls("roleService.unassign") = 0
          /\ NumCalls("roleService.assign") =
                 (IF EvPlan.roleId \in pre[Serial].roles THEN 0 ELSE 1)
          /\ NumCalls("roleService.assign") =
                 NumCallsWith("roleService.assign", EvPlan.roleId)
    /\ C13_CreatedInactive =>
          /\ roles = pre[Serial].roles
          /\ NumCalls("roleService.assign") = 0
          /\ NumCalls("roleService.unassign") = 0
          /\ user = [ subscriptionStatus |-> Ev.status,
                      subscriptionPlanId |-> EvPlan.id,
                      stripeSubscriptionId |-> Ev.id ]

\* the second event of the sequence: the row is as a created event that was
\* not active left it, the role is not held, and the update assigns it
C13_Witness ==
    /\ C13_Case
    /\ pre[Serial].user.subscriptionStatus # "active"
    /\ pre[Serial].user.stripeSubscriptionId = Ev.id
    /\ pre[Serial].roles \cap CatalogRoles = {}
    /\ NumCalls("roleService.assign") = 1
    /\ EvPlan.roleId \in roles

----------------------------------------------------------------------------
(* C14 *)

\* an updated event, not foreign, that carries cancel_at_period_end
C14_Case ==
    /\ pc[Serial] # "idle" /\ Accepted
    /\ Ev.type = Updated /\ Ev.cancel_at_period_end
    /\ ~PreForeign

\* C14: an updated event with cancel_at_period_end set and a status other
\* than active makes no role call, no row update and no publish; with status
\* active the flag changes nothing: the row is updated once to (active, event
\* plan, stored id or else event id), the event plan's role is held whenever a
\* reconciling arm ran, and one notification is published.
C14_PendingCancellation ==
    /\ (C14_Case /\ Ev.status # "active") => (NoWriteCalls /\ Untouched)
    /\ (C14_Case /\ Ev.status = "active" /\ pc[Serial] = "returned"
            /\ Resolved /\ PriceKnown) =>
          /\ NumCalls("users.update") = 1
          /\ NumCalls("publishMainStream") = 1
          /\ user = [ subscriptionStatus |-> "active",
                      subscriptionPlanId |-> EvPlan.id,
                      stripeSubscriptionId |->
                          IF pre[Serial].user.stripeSubscriptionId # NoSubscription
                          THEN pre[Serial].user.stripeSubscriptionId ELSE Ev.id ]
          /\ (pre[Serial].user.subscriptionPlanId # EvPlan.id \/ Ev.previous_status)
                => EvPlan.roleId \in roles

\* a pending cancellation of the stored subscription, returned untouched
C14_Witness ==
    /\ C14_Case /\ pc[Serial] = "returned" /\ Resolved /\ PriceKnown
    /\ Ev.status = "canceled"
    /\ pre[Serial].user.stripeSubscriptionId = Ev.id
    /\ pre[Serial].user.subscriptionStatus = "active"
    /\ NumCalls("users.findOneByOrFail") = 1

----------------------------------------------------------------------------
(* C15 *)

\* an updated event whose usersRepository.update has run
C15_Case ==
    /\ pc[Serial] \in {"pack", "returned"} /\ Accepted
    /\ Ev.type = Updated
    /\ NumCalls("users.update") = 1

\* C15: after the update of an updated event the row holds the event's
\* status; plan and subscription id are null when that status is
\* incomplete_expired, and otherwise the plan is the event plan's id and the
\* subscription id is the stored one if there was one, else the event's.
C15_UpdatedPersist ==
    C15_Case =>
        /\ user.subscriptionStatus = Ev.status
        /\ IF Ev.status = "incomplete_expired"
           THEN /\ user.subscriptionPlanId = Null
                /\ user.stripeSubscriptionId = NoSubscription
           ELSE /\ user.subscriptionPlanId = EvPlan.id
                /\ user.stripeSubscriptionId =
                       (IF pre[Serial].user.stripeSubscriptionId # NoSubscription
                        THEN pre[Serial].user.stripeSubscriptionId ELSE Ev.id)

\* an expiry that clears a stored plan and subscription id
C15_Witness ==
    /\ C15_Case /\ pc[Serial] = "returned"
    /\ Ev.status = "incomplete_expired"
    /\ pre[Serial].user.subscriptionPlanId # Null
    /\ pre[Serial].user.stripeSubscriptionId = Ev.id
    /\ user.subscriptionPlanId = Null

----------------------------------------------------------------------------
(* C16 *)

\* C16 (as claimed): once the deleted event of subscription S has cleared the
\* row, no step of handling a later updated event for the same S changes the
\* user's row or roles.
C16_AsClaimed ==
    [][ ( /\ pc[Serial] # "idle" /\ Accepted
          /\ Ev.type = Updated
          /\ ended # NoSubscription /\ Ev.id = ended )
        => (user' = user /\ roles' = roles) ]_vars

----------------------------------------------------------------------------
(* C17 *)

\* a verified event whose customer has no profile, past the profile lookup
C17_Case ==
    /\ pc[Serial] \notin {"idle", "profile"} /\ Accepted
    /\ \A p \in UserProfiles : p.stripeCustomerId # Ev.customer

\* C17: when the event's customer has no profile the handler throws after the
\* profile lookup and one warning: no reply code is set, no plan or user is
\* read, no role call, row update or publish is made, whatever the event type.
C17_ProfileNotFound ==
    C17_Case =>
        /\ pc[Serial] = "thrown"
        /\ calls[Serial] =
               << Call("userProfiles.findOneBy", Ev.customer),
                  Call("logger.warn", "no profile") >>
        /\ Untouched

\* an unrecognized event type for an unknown customer
C17_Witness ==
    /\ C17_Case /\ Ev.type \notin HandledTypes
    /\ pc[Serial] = "thrown"
    /\ ReplyCodes = << >>

----------------------------------------------------------------------------
(* C18 *)

EvOf(h) == req[h].event

PlanOf(h) == CHOOSE p \in SubscriptionPlans : p.stripePriceId = EvOf(h).price

RowOf(h) ==
    [ subscriptionStatus |-> EvOf(h).status,
      subscriptionPlanId |-> PlanOf(h).id,
      stripeSubscriptionId |-> EvOf(h).id ]

Made(h, op) == Len(SelectSeq(calls[h], LAMBDA c : c.op = op))

\* both invocations have returned from active created events of different
\* subscriptions and plans, for a user whose stored id was null at both starts
C18_TwoCreated ==
    /\ config
    /\ \A h \in Handlers :
          /\ pc[h] = "returned"
          /\ EvOf(h).status = "active"
          /\ \E p \in SubscriptionPlans : p.stripePriceId = EvOf(h).price
    /\ EvOf("h1").id # EvOf("h2").id
    /\ PlanOf("h1").id # PlanOf("h2").id

\* the roles held before either invocation began
StartRoles == pre["h1"].roles \cap pre["h2"].roles

\* what handling the two events one after the other, in either order, ends in
SerialOutcomes ==
    { [user |-> RowOf(h), roles |-> StartRoles \cup {PlanOf(h).roleId}] :
        h \in Handlers }

\* both read the row before either wrote it
C18_BothPassed ==
    \A h \in Handlers : loc[h].user.stripeSubscriptionId = NoSubscription

\* one read the row after the other had written it
C18_OneAfterOther ==
    \E h \in Handlers : loc[h].user.stripeSubscriptionId # NoSubscription

\* C18: of two created events handled concurrently, whenever both read the
\* row before either wrote it, both assign their plan's role and both update
\* the row, and the end state (two plan roles held, one plan stored) is none
\* that handling them one after the other ends in; whenever one read the row
\* after the other's write, the end state is such a serial one.
C18_CreatedRace ==
    /\ (C18_TwoCreated /\ C18_BothPassed) =>
          /\ \A h \in Handlers :
                /\ Made(h, "roleService.assign") = 1
                /\ Made(h, "users.update") = 1
          /\ roles = StartRoles \cup {PlanOf("h1").roleId, PlanOf("h2").roleId}
          /\ user \in {RowOf("h1"), RowOf("h2")}
          /\ [user |-> user, roles |-> roles] \notin SerialOutcomes
    /\ (C18_TwoCreated /\ C18_OneAfterOther) =>
          [user |-> user, roles |-> roles] \in SerialOutcomes

\* the interleaving of the claim: both passed the check, both assigned, both
\* wrote; the row names one plan, the roles of both are held
C18_Witness ==
    /\ C18_TwoCreated /\ C18_BothPassed
    /\ \A h \in Handlers : Made(h, "roleService.assign") = 1
                           /\ Made(h, "users.update") = 1
    /\ {PlanOf("h1").roleId, PlanOf("h2").roleId} \subseteq roles
    /\ user = RowOf("h1")

----------------------------------------------------------------------------
(* C19 *)

\* every request that has ended, however it ended, published exactly when it
\* updated the row
C19_AsClaimed ==
    pc[Serial] \in Final =>
        NumCalls("publishMainStream") = NumCalls("users.update")

\* C19: at every point of every request at most one row update and at most
\* one publish have been made, a publish only after the update and for the
\* same user; a request that has returned has published exactly when it
\* updated the row, so one that made no update (rejected, no profile, already
\* processed, foreign, pending cancellation, unrecognized type) published
\* nothing; a request that ended in a rejected awaited call has published
\* nothing, whether or not it had updated the row.
C19_PublishIffUpdate ==
    /\ NumCalls("users.update") <= 1
    /\ NumCalls("publishMainStream") <= NumCalls("users.update")
    /\ \A i \in DOMAIN calls[Serial] :
          calls[Serial][i].op = "publishMainStream" =>
              \E j \in 1..(i - 1) :
                  calls[Serial][j] = Call("users.update", calls[Serial][i].arg)
    /\ pc[Serial] = "returned" =>
          NumCalls("publishMainStream") = NumCalls("users.update")
    /\ pc[Serial] = "thrown" => NumCalls("publishMainStream") = 0

\* an updated event that wrote the row and then published
C19_Witness ==
    /\ pc[Serial] = "returned" /\ Resolved
    /\ Ev.type = Updated
    /\ user # pre[Serial].user
    /\ NumCalls("users.update") = 1
    /\ NumCalls("publishMainStream") = 1

====
